---- MODULE Spec2Model ----
(***************************************************************************)
(* df-noteblockplayer: the playback scheduler (playSong / stopSong and the *)
(* stopPlayer registry) and the NBS decoder (ParseNBS).                    *)
(*                                                                         *)
(* A playback task is one goroutine running playSong.  A task lives in a    *)
(* slot of 1..MaxTasks from `go playSong` until the goroutine returns; the *)
(* slot's number also names the stop channel the task creates.  The steps   *)
(* of a task are the places where other goroutines can see or change what  *)
(* it works on: taking stopPlayerMtx, the locked section, the poll of the  *)
(* channel, a sleep, a call into the world.                                *)
(***************************************************************************)
EXTENDS Integers, Sequences, FiniteSets, TLC

\* ---------------------------------------------------------------- bounds
MaxTasks == 2       \* playSong goroutines alive at the same time
MaxNotes == 3       \* notes in a song of the solo specification
MaxTick  == 3       \* largest tick / Length of a song of the solo specification
MaxRecords == 4     \* tick headers and note entries in a decoded note-block stream

\* ---------------------------------------------------------------- state
VARIABLES
    eh,           \* eh[t]: the listener (EntityHandle) task t plays to
    song,         \* song[t]: the Song task t plays
    pc,           \* pc[t]: where task t is in playSong
    tick,         \* tick[t]: the loop variable of the tick loop
    currentTick,  \* currentTick[t]: the local of that name
    noteIdx,      \* noteIdx[t]: next position in notesPerTick[tick]
    stopChan,     \* stopChan[t]: signals buffered in t's channel (cap 1)
    stopPlayer,   \* the registry: listener -> channel (task number) or NoEntry
    cancelled,    \* cancelled[t]: t left the loop through `case <-stopChan`
    log,          \* log[t]: what t did to the host, and the signal it got
    lastStop,     \* lastStop[l]: what the last stopSong(l) returned; "none"
                  \* when there was none since a session of l last registered
    spawned,      \* the live tasks, in the order PlayNoteblock spawned them
    stopPlayerMtx, \* who holds the mutex of the registry
    inWorld,      \* inWorld[l]: eh.ExecWorld of listener l runs its function
    src,          \* ParseNBS: the header fields and stream records the file encodes
    file,         \* ParseNBS: the bytes of the file
    rd,           \* ParseNBS: bytes read so far
    dpc,          \* ParseNBS: where the decoder is
    data,         \* ParseNBS: the NBSData being filled (`data`, `allNotess`)
    nbsTick,      \* ParseNBS: the local `tick`
    nbsLayer,     \* ParseNBS: the local `layer`
    ret           \* ParseNBS: what it returned: "pending", "nil" (error) or "data"

vars == <<eh, song, pc, tick, currentTick, noteIdx, stopChan, stopPlayer,
          cancelled, log, lastStop, spawned, stopPlayerMtx, inWorld,
          src, file, rd, dpc, data, nbsTick, nbsLayer, ret>>

\* The scheduler's variables and the decoder's.
pvars == <<eh, song, pc, tick, currentTick, noteIdx, stopChan, stopPlayer,
           cancelled, log, lastStop, spawned, stopPlayerMtx, inWorld>>
dvars == <<src, file, rd, dpc, data, nbsTick, nbsLayer, ret>>

Listeners == {"p1", "p2"}
NoEntry == 0

Tasks == 1..MaxTasks

\* The holders of stopPlayerMtx: nobody, the goroutine of task t inside
\* playSong, or a call stopSong(l).
Unlocked == <<"unlocked", 0>>
ByTask(t) == <<"playSong", t>>
ByStop(l) == <<"stopSong", l>>

\* A Song, as far as the scheduler reads it: Tempo (in whole ticks per second;
\* 0 when the file gives none), Length and the ticks of Notes.
Song(len, ticks) == [Tempo |-> 0, Length |-> len, Notes |-> ticks]

\* Tempos of the songs played to a listener that may leave the world.
Tempos == {0, 10}

\* time.Second, in nanoseconds.
Second == 1000000000

\* Mutant of tickDuration: song.Tempo is not read.
tickDuration_default(s) == Second \div 20

\* tickDuration of playSong, in nanoseconds.
tickDuration(s) == IF s.Tempo > 0 THEN Second \div s.Tempo ELSE Second \div 20

\* Songs the commands of the concurrent specification load.
Playlist == { Song(2, <<0, 1>>), Song(1, <<2, 1>>) }

\* All note lists of at most MaxNotes notes with ticks in -1..MaxTick.
NoteLists == UNION { [1..n -> (-1)..MaxTick] : n \in 0..MaxNotes }

\* Songs of the solo specification.
AllSongs == { Song(len, ns) : len \in (-1)..MaxTick, ns \in NoteLists }

\* The same songs, at every tempo of Tempos.
TimedSongs == { [s EXCEPT !.Tempo = tp] : s \in AllSongs, tp \in Tempos }

\* ---------------------------------------------------------------- helpers
\* notesPerTick[t] of playSong: the positions, in Notes order, of the notes
\* whose Tick is t.
RECURSIVE notesPerTickFrom(_, _, _)
notesPerTickFrom(ns, t, i) ==
    IF i > Len(ns) THEN <<>>
    ELSE (IF ns[i] = t THEN <<i>> ELSE <<>>) \o notesPerTickFrom(ns, t, i + 1)

\* Mutant of notesPerTick: each note is put in front of its tick's list.
RECURSIVE notesPerTickRev(_, _, _)
notesPerTickRev(ns, t, i) ==
    IF i > Len(ns) THEN <<>>
    ELSE notesPerTickRev(ns, t, i + 1) \o (IF ns[i] = t THEN <<i>> ELSE <<>>)

notesPerTick_prepend(s, t) == notesPerTickRev(s.Notes, t, 1)

notesPerTick(s, t) == notesPerTickFrom(s.Notes, t, 1)

\* `select { case ch <- struct{}{}: default: }` on a channel of capacity 1.
TrySend(chans, c) == IF chans[c] = 0 THEN [chans EXCEPT ![c] = 1] ELSE chans

Entry(op, arg) == [op |-> op, arg |-> arg]

\* The log after a send to channel c: the signal is noted only if it went in.
LogSend(lg, chans, c) ==
    IF chans[c] = 0 THEN [lg EXCEPT ![c] = Append(@, Entry("signal", 0))] ELSE lg

\* ---------------------------------------------------------------- Init
Init ==
    /\ eh = [t \in Tasks |-> "p1"]
    /\ song = [t \in Tasks |-> Song(0, <<>>)]
    /\ pc = [t \in Tasks |-> "idle"]
    /\ tick = [t \in Tasks |-> 0]
    /\ currentTick = [t \in Tasks |-> 0]
    /\ noteIdx = [t \in Tasks |-> 1]
    /\ stopChan = [t \in Tasks |-> 0]
    /\ stopPlayer = [l \in Listeners |-> NoEntry]
    /\ cancelled = [t \in Tasks |-> FALSE]
    /\ log = [t \in Tasks |-> <<>>]
    /\ lastStop = [l \in Listeners |-> "none"]
    /\ spawned = <<>>
    /\ stopPlayerMtx = Unlocked
    /\ inWorld = [l \in Listeners |-> TRUE]
    /\ src = [length |-> 0, version |-> 0, records |-> <<>>]
    /\ file = <<>>
    /\ rd = 0
    /\ dpc = "idle"
    /\ data = [Version |-> 0, Length |-> 0, Layers |-> 0, TempoRaw |-> 0,
               HasDuration |-> FALSE, Notess |-> <<>>]
    /\ nbsTick = -1
    /\ nbsLayer = -1
    /\ ret = "pending"

\* ---------------------------------------------------------------- actions
\* The lowest free slot.
FreeSlot == CHOOSE t \in Tasks : pc[t] = "idle" /\ \A u \in Tasks : pc[u] = "idle" => t <= u

\* PlayNoteblock / PlayNoteBlockCmd.Run: `go playSong(eh, song)`.
PlayNoteblock(l, s) ==
    /\ \E t \in Tasks : pc[t] = "idle"
    /\ LET t == FreeSlot IN
        /\ eh' = [eh EXCEPT ![t] = l]
        /\ song' = [song EXCEPT ![t] = s]
        /\ pc' = [pc EXCEPT ![t] = "start"]
        /\ spawned' = Append(spawned, t)
    /\ UNCHANGED <<tick, currentTick, noteIdx, stopChan, stopPlayer, cancelled,
                   log, lastStop, stopPlayerMtx, inWorld>>
    /\ UNCHANGED dvars

\* Mutant of AfterTick: the loop condition is `tick < song.Length`.
AfterTick_exclusive(s, k) ==
    IF k + 1 >= s.Length THEN [pc |-> "notice", tick |-> k + 1]
    ELSE [pc |-> "loop", tick |-> k + 1]

\* Where playSong goes once the notes of tick k are done: `tick++`, then the
\* loop condition `tick <= song.Length`.
AfterTick(s, k) ==
    IF k + 1 > s.Length THEN [pc |-> "notice", tick |-> k + 1]
    ELSE [pc |-> "loop", tick |-> k + 1]

\* Where playSong goes once the sleep of tick k is over: into the range over
\* notesPerTick[k] if there are notes, else on to the next tick.
ToNotes(s, k) ==
    IF Len(notesPerTick(s, k)) > 0 THEN [pc |-> "emit", tick |-> k]
    ELSE AfterTick(s, k)

\* stopPlayerMtx.Lock() of playSong: on entry, and in the deferred function.
Lock(t) ==
    /\ pc[t] \in {"start", "unregister"}
    /\ stopPlayerMtx = Unlocked
    /\ stopPlayerMtx' = ByTask(t)
    /\ pc' = [pc EXCEPT ![t] = IF pc[t] = "start" THEN "register" ELSE "delete"]
    /\ UNCHANGED <<eh, song, tick, currentTick, noteIdx, stopChan, stopPlayer,
                   cancelled, log, lastStop, spawned, inWorld>>
    /\ UNCHANGED dvars

\* Mutant of Register: `stopPlayerMtx.Unlock()` is missing.
Register_keepsLock(t) ==
    /\ pc[t] = "register"
    /\ LET old == stopPlayer[eh[t]] IN
        /\ stopChan' = IF old # NoEntry THEN TrySend(stopChan, old) ELSE stopChan
        /\ log' = IF old # NoEntry THEN LogSend(log, stopChan, old) ELSE log
    /\ stopPlayer' = [stopPlayer EXCEPT ![eh[t]] = t]
    /\ pc' = [pc EXCEPT ![t] = IF 0 > song[t].Length THEN "notice" ELSE "loop"]
    /\ lastStop' = [lastStop EXCEPT ![eh[t]] = "none"]
    /\ UNCHANGED <<eh, song, tick, currentTick, noteIdx, cancelled, spawned,
                   stopPlayerMtx, inWorld>>
    /\ UNCHANGED dvars

\* playSong, the locked section: signal the registered channel, register a
\* fresh one, unlock; then the locals, and the loop condition for tick 0.
Register(t) ==
    /\ pc[t] = "register"
    /\ stopPlayerMtx' = Unlocked
    /\ LET old == stopPlayer[eh[t]] IN
        /\ stopChan' = IF old # NoEntry THEN TrySend(stopChan, old) ELSE stopChan
        /\ log' = IF old # NoEntry THEN LogSend(log, stopChan, old) ELSE log
    /\ stopPlayer' = [stopPlayer EXCEPT ![eh[t]] = t]
    /\ pc' = [pc EXCEPT ![t] = IF 0 > song[t].Length THEN "notice" ELSE "loop"]
    /\ lastStop' = [lastStop EXCEPT ![eh[t]] = "none"]
    /\ UNCHANGED <<eh, song, tick, currentTick, noteIdx, cancelled, spawned, inWorld>>
    /\ UNCHANGED dvars

\* Mutant of Poll: the channel is not polled.
Poll_ignoresStop(t) ==
    /\ pc[t] = "loop"
    /\ LET to == IF tick[t] > currentTick[t]
                 THEN [pc |-> "sleep", tick |-> tick[t]]
                 ELSE ToNotes(song[t], tick[t]) IN
        /\ pc' = [pc EXCEPT ![t] = to.pc]
        /\ tick' = [tick EXCEPT ![t] = to.tick]
    /\ noteIdx' = [noteIdx EXCEPT ![t] = 1]
    /\ UNCHANGED <<eh, song, currentTick, stopChan, cancelled, stopPlayer, log,
                   lastStop, spawned, stopPlayerMtx, inWorld>>
    /\ UNCHANGED dvars

\* Mutant of Poll: the select has no default branch, so the task waits for a
\* signal.
Poll_waits(t) ==
    /\ pc[t] = "loop"
    /\ stopChan[t] > 0
    /\ stopChan' = [stopChan EXCEPT ![t] = 0]
    /\ cancelled' = [cancelled EXCEPT ![t] = TRUE]
    /\ pc' = [pc EXCEPT ![t] = "notice"]
    /\ UNCHANGED <<eh, song, tick, noteIdx, currentTick, stopPlayer, log, lastStop,
                   spawned, stopPlayerMtx, inWorld>>
    /\ UNCHANGED dvars

\* The head of one iteration: the poll of stopChan, then `tick > currentTick`.
Poll(t) ==
    /\ pc[t] = "loop"
    /\ IF stopChan[t] > 0
       THEN /\ stopChan' = [stopChan EXCEPT ![t] = 0]
            /\ cancelled' = [cancelled EXCEPT ![t] = TRUE]
            /\ pc' = [pc EXCEPT ![t] = "notice"]
            /\ UNCHANGED <<tick, noteIdx>>
       ELSE /\ LET to == IF tick[t] > currentTick[t]
                         THEN [pc |-> "sleep", tick |-> tick[t]]
                         ELSE ToNotes(song[t], tick[t]) IN
                /\ pc' = [pc EXCEPT ![t] = to.pc]
                /\ tick' = [tick EXCEPT ![t] = to.tick]
            /\ noteIdx' = [noteIdx EXCEPT ![t] = 1]
            /\ UNCHANGED <<stopChan, cancelled>>
    /\ UNCHANGED <<eh, song, currentTick, stopPlayer, log, lastStop, spawned,
                   stopPlayerMtx, inWorld>>
    /\ UNCHANGED dvars

\* Mutant of Sleep: `currentTick = tick` is missing.
Sleep_keepsCurrentTick(t) ==
    /\ pc[t] = "sleep"
    /\ log' = [log EXCEPT ![t] = Append(@, Entry("sleep", tick[t] - currentTick[t]))]
    /\ LET to == ToNotes(song[t], tick[t]) IN
        /\ pc' = [pc EXCEPT ![t] = to.pc]
        /\ tick' = [tick EXCEPT ![t] = to.tick]
    /\ noteIdx' = [noteIdx EXCEPT ![t] = 1]
    /\ UNCHANGED <<eh, song, currentTick, stopChan, stopPlayer, cancelled,
                   lastStop, spawned, stopPlayerMtx, inWorld>>
    /\ UNCHANGED dvars

\* `time.Sleep(time.Duration(tick-currentTick) * tickDuration)` and
\* `currentTick = tick`; the duration is logged in tick durations.
Sleep(t) ==
    /\ pc[t] = "sleep"
    /\ log' = [log EXCEPT ![t] = Append(@, Entry("sleep", tick[t] - currentTick[t]))]
    /\ currentTick' = [currentTick EXCEPT ![t] = tick[t]]
    /\ LET to == ToNotes(song[t], tick[t]) IN
        /\ pc' = [pc EXCEPT ![t] = to.pc]
        /\ tick' = [tick EXCEPT ![t] = to.tick]
    /\ noteIdx' = [noteIdx EXCEPT ![t] = 1]
    /\ UNCHANGED <<eh, song, stopChan, stopPlayer, cancelled, lastStop, spawned,
                   stopPlayerMtx, inWorld>>
    /\ UNCHANGED dvars

\* What a call of eh.ExecWorld leaves in the log: the entry of kind op when
\* the function ran, and one of kind "drop" when it did not.
Delivered(l, op) == IF inWorld[l] THEN op ELSE "drop"

\* Mutant of Emit: a call of playSoundSelf that does not reach the listener
\* ends the playback.
Emit_endsOnFailure(t) ==
    /\ pc[t] = "emit"
    /\ LET notes == notesPerTick(song[t], tick[t]) IN
        /\ log' = [log EXCEPT ![t] =
                      Append(@, Entry(Delivered(eh[t], "emit"), notes[noteIdx[t]]))]
        /\ IF ~inWorld[eh[t]]
           THEN /\ pc' = [pc EXCEPT ![t] = "notice"]
                /\ UNCHANGED <<tick, noteIdx>>
           ELSE IF noteIdx[t] < Len(notes)
           THEN /\ noteIdx' = [noteIdx EXCEPT ![t] = @ + 1]
                /\ UNCHANGED <<pc, tick>>
           ELSE /\ LET to == AfterTick(song[t], tick[t]) IN
                    /\ pc' = [pc EXCEPT ![t] = to.pc]
                    /\ tick' = [tick EXCEPT ![t] = to.tick]
                /\ noteIdx' = [noteIdx EXCEPT ![t] = 1]
    /\ UNCHANGED <<eh, song, currentTick, stopChan, stopPlayer, cancelled, lastStop,
                   spawned, stopPlayerMtx, inWorld>>
    /\ UNCHANGED dvars

\* One pass of `for _, note := range notes`: playSoundSelf for the next note
\* of this tick, its result ignored; after the last one, on to the next tick.
Emit(t) ==
    /\ pc[t] = "emit"
    /\ LET notes == notesPerTick(song[t], tick[t]) IN
        /\ log' = [log EXCEPT ![t] =
                      Append(@, Entry(Delivered(eh[t], "emit"), notes[noteIdx[t]]))]
        /\ IF noteIdx[t] < Len(notes)
           THEN /\ noteIdx' = [noteIdx EXCEPT ![t] = @ + 1]
                /\ UNCHANGED <<pc, tick>>
           ELSE /\ LET to == AfterTick(song[t], tick[t]) IN
                    /\ pc' = [pc EXCEPT ![t] = to.pc]
                    /\ tick' = [tick EXCEPT ![t] = to.tick]
                /\ noteIdx' = [noteIdx EXCEPT ![t] = 1]
    /\ UNCHANGED <<eh, song, currentTick, stopChan, stopPlayer, cancelled, lastStop,
                   spawned, stopPlayerMtx, inWorld>>
    /\ UNCHANGED dvars

\* The deferred function, first half: pp.Message("Song playback finished.").
Notice(t) ==
    /\ pc[t] = "notice"
    /\ log' = [log EXCEPT ![t] = Append(@, Entry(Delivered(eh[t], "notice"), 0))]
    /\ pc' = [pc EXCEPT ![t] = "unregister"]
    /\ UNCHANGED <<eh, song, tick, currentTick, noteIdx, stopChan, stopPlayer,
                   cancelled, lastStop, spawned, stopPlayerMtx, inWorld>>
    /\ UNCHANGED dvars

\* Mutant of Unregister: the registry is emptied.
Unregister_allEntries(t) ==
    /\ pc[t] = "delete"
    /\ stopPlayer' = [l \in Listeners |-> NoEntry]
    /\ stopPlayerMtx' = Unlocked
    /\ pc' = [pc EXCEPT ![t] = "done"]
    /\ UNCHANGED <<eh, song, tick, currentTick, noteIdx, stopChan, cancelled,
                   log, lastStop, spawned, inWorld>>
    /\ UNCHANGED dvars

\* The deferred function, second half: delete(stopPlayer, eh) and the unlock.
Unregister(t) ==
    /\ pc[t] = "delete"
    /\ stopPlayer' = [stopPlayer EXCEPT ![eh[t]] = NoEntry]
    /\ stopPlayerMtx' = Unlocked
    /\ pc' = [pc EXCEPT ![t] = "done"]
    /\ UNCHANGED <<eh, song, tick, currentTick, noteIdx, stopChan, cancelled,
                   log, lastStop, spawned, inWorld>>
    /\ UNCHANGED dvars

\* The goroutine returns: its locals and its channel are gone.
Return(t) ==
    /\ pc[t] = "done"
    /\ pc' = [pc EXCEPT ![t] = "idle"]
    /\ eh' = [eh EXCEPT ![t] = "p1"]
    /\ song' = [song EXCEPT ![t] = Song(0, <<>>)]
    /\ tick' = [tick EXCEPT ![t] = 0]
    /\ currentTick' = [currentTick EXCEPT ![t] = 0]
    /\ noteIdx' = [noteIdx EXCEPT ![t] = 1]
    /\ stopChan' = [stopChan EXCEPT ![t] = 0]
    /\ cancelled' = [cancelled EXCEPT ![t] = FALSE]
    /\ log' = [log EXCEPT ![t] = <<>>]
    /\ spawned' = SelectSeq(spawned, LAMBDA u : u # t)
    /\ UNCHANGED <<stopPlayer, lastStop, stopPlayerMtx, inWorld>>
    /\ UNCHANGED dvars

\* Mutant of stopSong: `delete(stopPlayer, eh)` is missing.
stopSong_keepsEntry(l) ==
    /\ stopPlayerMtx = ByStop(l)
    /\ stopPlayerMtx' = Unlocked
    /\ LET ch == stopPlayer[l] IN
       IF ch # NoEntry
       THEN /\ stopChan' = TrySend(stopChan, ch)
            /\ log' = LogSend(log, stopChan, ch)
            /\ lastStop' = [lastStop EXCEPT ![l] = "true"]
            /\ UNCHANGED stopPlayer
       ELSE /\ lastStop' = [lastStop EXCEPT ![l] = "false"]
            /\ UNCHANGED <<stopChan, log, stopPlayer>>
    /\ UNCHANGED <<eh, song, pc, tick, currentTick, noteIdx, cancelled, spawned, inWorld>>
    /\ UNCHANGED dvars

\* stopPlayerMtx.Lock() of stopSong(eh).
StopLock(l) ==
    /\ stopPlayerMtx = Unlocked
    /\ stopPlayerMtx' = ByStop(l)
    /\ UNCHANGED <<eh, song, pc, tick, currentTick, noteIdx, stopChan, stopPlayer,
                   cancelled, log, lastStop, spawned, inWorld>>
    /\ UNCHANGED dvars

\* stopSong(eh) after the lock: lookup, signal, delete, the deferred unlock and
\* the return.
stopSong(l) ==
    /\ stopPlayerMtx = ByStop(l)
    /\ stopPlayerMtx' = Unlocked
    /\ LET ch == stopPlayer[l] IN
       IF ch # NoEntry
       THEN /\ stopChan' = TrySend(stopChan, ch)
            /\ log' = LogSend(log, stopChan, ch)
            /\ stopPlayer' = [stopPlayer EXCEPT ![l] = NoEntry]
            /\ lastStop' = [lastStop EXCEPT ![l] = "true"]
       ELSE /\ lastStop' = [lastStop EXCEPT ![l] = "false"]
            /\ UNCHANGED <<stopChan, log, stopPlayer>>
    /\ UNCHANGED <<eh, song, pc, tick, currentTick, noteIdx, cancelled, spawned, inWorld>>
    /\ UNCHANGED dvars

\* The listener leaves the world (disconnects): from now on eh.ExecWorld
\* returns without running its function.
Quit(l) ==
    /\ inWorld[l]
    /\ inWorld' = [inWorld EXCEPT ![l] = FALSE]
    /\ UNCHANGED <<eh, song, pc, tick, currentTick, noteIdx, stopChan, stopPlayer,
                   cancelled, log, lastStop, spawned, stopPlayerMtx>>
    /\ UNCHANGED dvars

TaskStep(t) ==
    \/ Lock(t)
    \/ Register(t)
    \/ Poll(t)
    \/ Sleep(t)
    \/ Emit(t)
    \/ Notice(t)
    \/ Unregister(t)
    \/ Return(t)

Next ==
    \/ \E l \in Listeners, s \in Playlist : PlayNoteblock(l, s)
    \/ \E l \in Listeners : StopLock(l)
    \/ \E l \in Listeners : stopSong(l)
    \/ \E t \in Tasks : TaskStep(t)

Spec == Init /\ [][Next]_vars

\* The goroutines are scheduled fairly, every sleep ends, and a goroutine that
\* waits for stopPlayerMtx gets it (sync.Mutex hands the lock to a waiter
\* that has been starved).
\* Checked on the plays and stops of one listener.
FairNext ==
    \/ \E s \in Playlist : PlayNoteblock("p1", s)
    \/ StopLock("p1")
    \/ stopSong("p1")
    \/ \E t \in Tasks : TaskStep(t)

FairSpec ==
    /\ Init /\ [][FairNext]_vars
    /\ \A t \in Tasks : SF_vars(TaskStep(t))
    /\ WF_vars(stopSong("p1"))

\* One listener playing one song at a time, any song of AllSongs.
SoloNext ==
    \/ spawned = <<>> /\ \E s \in AllSongs : PlayNoteblock("p1", s)
    \/ StopLock("p1")
    \/ stopSong("p1")
    \/ \E t \in Tasks : TaskStep(t)

SoloSpec == Init /\ [][SoloNext]_vars

\* One listener playing one song at a time, at any tempo, never stopped, and
\* leaving the world at any moment; the goroutine is scheduled fairly and
\* every sleep ends.
QuitNext ==
    \/ spawned = <<>> /\ \E s \in TimedSongs : PlayNoteblock("p1", s)
    \/ Quit("p1")
    \/ \E t \in Tasks : TaskStep(t)

QuitSpec == Init /\ [][QuitNext]_vars /\ \A t \in Tasks : WF_vars(TaskStep(t))

\* ---------------------------------------------------------------- the NBS decoder
\* Little-endian encodings, as the files hold them.
U16(n) == <<n % 256, n \div 256>>
U32(n) == <<n % 256, (n \div 256) % 256, (n \div 65536) % 256, n \div 16777216>>
I16(n) == U16(IF n < 0 THEN n + 65536 ELSE n)
Str(bytes) == U32(Len(bytes)) \o bytes

\* The values a file of the decoder specification is built from.
Versions == {3, 4}
DeclaredLengths == {0, 7}
Jumps == {1, 2}
TickJumps == {1, 2, 3, 65535}
Keys == {0, 45}
\* The title and the raw tempo of every such file, and the fields of every
\* note entry besides its key.
Meta == [title |-> <<78, 66>>, tempoRaw |-> 1000]
Fields == [instrument |-> 5, velocity |-> 80, panning |-> 50, pitch |-> -2]

\* A record of the note-block stream: a tick header (jump_ticks) or a note
\* entry (jump_layers, instrument, key and, from version 4, three more fields).
TickRecord(j) == [kind |-> "tick", jump |-> j, key |-> 0]
NoteRecord(j, k) == [kind |-> "note", jump |-> j, key |-> k]
Records ==
    { TickRecord(j) : j \in TickJumps } \cup { NoteRecord(j, k) : j \in Jumps, k \in Keys }

\* Streams of at most MaxRecords records; an entry needs a tick before it.
Streams ==
    { r \in UNION { [1..n -> Records] : n \in 0..MaxRecords } :
        Len(r) > 0 => r[1].kind = "tick" }

HeaderBytes(length, version) ==
    U16(length) \o <<version, 16>> \o U16(1) \o U16(0)
    \o Str(Meta.title) \o Str(<<>>) \o Str(<<>>) \o Str(<<>>)
    \o U16(Meta.tempoRaw)
    \o <<0, 10, 4>>
    \o U32(0) \o U32(0) \o U32(0) \o U32(0) \o U32(0)
    \o Str(<<>>)
    \o <<0, 0>> \o U16(0)

\* The bytes of records i.. of a stream; inTick: a tick's layer list is open
\* and needs its closing jump_layers = 0 before the next jump_ticks.
RECURSIVE StreamBytes(_, _, _, _)
StreamBytes(recs, version, i, inTick) ==
    IF i > Len(recs)
    THEN (IF inTick THEN U16(0) ELSE <<>>) \o U16(0)
    ELSE IF recs[i].kind = "tick"
    THEN (IF inTick THEN U16(0) ELSE <<>>) \o U16(recs[i].jump)
         \o StreamBytes(recs, version, i + 1, TRUE)
    ELSE U16(recs[i].jump) \o <<Fields.instrument, recs[i].key>>
         \o (IF version >= 4
             THEN <<Fields.velocity, Fields.panning>> \o I16(Fields.pitch)
             ELSE <<>>)
         \o StreamBytes(recs, version, i + 1, TRUE)

FileBytes(h) == HeaderBytes(h.length, h.version) \o StreamBytes(h.records, h.version, 1, FALSE)

\* Bytes that follow the end of the stream in a file: the layer section of a
\* real file begins here.  Read as a jump_ticks they would open tick 1.
Trailer == U16(2)

\* The binary readers: the value at offset p (0-based) of f.
HasBytes(f, p, n) == p + n <= Len(f)
readUint8(f, p) == f[p + 1]
readUint16(f, p) == f[p + 1] + 256 * f[p + 2]
readUint32(f, p) == f[p + 1] + 256 * f[p + 2] + 65536 * f[p + 3] + 16777216 * f[p + 4]
readInt16(f, p) ==
    LET u == readUint16(f, p) IN IF u >= 32768 THEN u - 65536 ELSE u

\* The offset after n more bytes, or -1 when the file ends before (p = -1: an
\* earlier read failed).
Skip(f, p, n) == IF p = -1 \/ ~HasBytes(f, p, n) THEN -1 ELSE p + n

\* readString: the offset after a length-prefixed string, or -1.
readString(f, p) ==
    IF p = -1 \/ ~HasBytes(f, p, 4) THEN -1
    ELSE LET n == readUint32(f, p) IN
         IF n = 0 THEN p + 4 ELSE Skip(f, p + 4, n)

\* Offsets of ParseNBS's header reads: after the five header fields, after the
\* four strings, after the tempo, and after the last skipped field.
AfterHeader(f) == Skip(f, 0, 8)
AfterStrings(f) == readString(f, readString(f, readString(f, readString(f, AfterHeader(f)))))
AfterTempo(f) == Skip(f, AfterStrings(f), 2)
AfterMeta(f) == Skip(f, readString(f, Skip(f, AfterTempo(f), 23)), 4)

\* The files a header and a stream can be cut to: every prefix of their bytes
\* and of what follows them.  A file cut inside the header holds the same
\* bytes whatever stream followed, so those cuts are taken with the empty
\* stream.
Cuts(h) ==
    LET whole == FileBytes(h) \o Trailer
        from == IF h.records = <<>> THEN 0 ELSE Len(HeaderBytes(h.length, h.version))
    IN { SubSeq(whole, 1, n) : n \in from..Len(whole) }

\* ParseNBS about to read a file f that was made from h.
Opened(h, f) ==
    /\ Init!1 /\ Init!2 /\ Init!3 /\ Init!4 /\ Init!5 /\ Init!6
    /\ Init!7 /\ Init!8 /\ Init!9 /\ Init!10 /\ Init!11 /\ Init!12
    /\ Init!13 /\ Init!14
    /\ src = h
    /\ file = f
    /\ rd = 0
    /\ dpc = "header"
    /\ data = [Version |-> 0, Length |-> 0, Layers |-> 0, TempoRaw |-> 0,
               HasDuration |-> FALSE, Notess |-> <<>>]
    /\ nbsTick = -1
    /\ nbsLayer = -1
    /\ ret = "pending"

\* A whole file on disk: the bytes of some header and stream, alone or with
\* more bytes after them.
DecodeInit ==
    \E h \in [length : DeclaredLengths, version : Versions, records : Streams] :
        \E f \in {FileBytes(h), FileBytes(h) \o Trailer} : Opened(h, f)

\* A file on disk that may have been cut anywhere.
CutInit ==
    \E h \in [length : DeclaredLengths, version : Versions, records : Streams] :
        \E f \in Cuts(h) : Opened(h, f)

\* Mutant of Fail: a failed read ends the decoding with what was decoded so far.
Fail_partialSong ==
    /\ dpc' = "done"
    /\ ret' = "data"
    /\ UNCHANGED <<src, file, rd, data, nbsTick, nbsLayer>>
    /\ UNCHANGED pvars

\* `return nil, err`.
Fail ==
    /\ dpc' = "error"
    /\ ret' = "nil"
    /\ UNCHANGED <<src, file, rd, data, nbsTick, nbsLayer>>
    /\ UNCHANGED pvars

\* ParseNBS up to `// Begin parsing note blocks`: the header and meta fields.
ParseHeader ==
    /\ dpc = "header"
    /\ IF AfterMeta(file) = -1
       THEN Fail
       ELSE /\ data' = [data EXCEPT !.Length = readUint16(file, 0),
                                    !.Version = readUint8(file, 2),
                                    !.Layers = readUint16(file, 4),
                                    !.TempoRaw = readUint16(file, AfterStrings(file))]
            /\ rd' = AfterMeta(file)
            /\ dpc' = "jumpTicks"
            /\ UNCHANGED <<src, file, nbsTick, nbsLayer, ret>>
    /\ UNCHANGED pvars

\* Mutant of ReadJumpTicks: `layer := -1` is missing.
ReadJumpTicks_keepsLayer ==
    /\ dpc = "jumpTicks"
    /\ IF ~HasBytes(file, rd, 2)
       THEN Fail
       ELSE LET jumpTicks == readUint16(file, rd) IN
            /\ rd' = rd + 2
            /\ IF jumpTicks = 0
               THEN dpc' = "finish" /\ UNCHANGED nbsTick
               ELSE /\ nbsTick' = nbsTick + jumpTicks
                    /\ dpc' = "jumpLayers"
            /\ UNCHANGED <<src, file, data, nbsLayer, ret>>
    /\ UNCHANGED pvars

\* The head of the outer loop: jump_ticks.
ReadJumpTicks ==
    /\ dpc = "jumpTicks"
    /\ IF ~HasBytes(file, rd, 2)
       THEN Fail
       ELSE LET jumpTicks == readUint16(file, rd) IN
            /\ rd' = rd + 2
            /\ IF jumpTicks = 0
               THEN dpc' = "finish" /\ UNCHANGED <<nbsTick, nbsLayer>>
               ELSE /\ nbsTick' = nbsTick + jumpTicks
                    /\ nbsLayer' = -1
                    /\ dpc' = "jumpLayers"
            /\ UNCHANGED <<src, file, data, ret>>
    /\ UNCHANGED pvars

\* The head of the inner loop: jump_layers.
ReadJumpLayers ==
    /\ dpc = "jumpLayers"
    /\ IF ~HasBytes(file, rd, 2)
       THEN Fail
       ELSE LET jumpLayers == readUint16(file, rd) IN
            /\ rd' = rd + 2
            /\ IF jumpLayers = 0
               THEN dpc' = "jumpTicks" /\ UNCHANGED nbsLayer
               ELSE nbsLayer' = nbsLayer + jumpLayers /\ dpc' = "note"
            /\ UNCHANGED <<src, file, data, nbsTick, ret>>
    /\ UNCHANGED pvars

\* The bytes one note entry takes after its jump_layers.
NoteSize(version) == IF version >= 4 THEN 6 ELSE 2

\* Mutant of ReadNote: the three further fields are read from version 5 on.
ReadNote_gateFrom5 ==
    /\ dpc = "note"
    /\ LET v5 == data.Version >= 5
           size == IF v5 THEN 6 ELSE 2 IN
       IF ~HasBytes(file, rd, size)
       THEN Fail
       ELSE LET key == readUint8(file, rd + 1)
                n == [Tick |-> nbsTick,
                      Layer |-> nbsLayer,
                      Instrument |-> readUint8(file, rd),
                      Key |-> key,
                      Velocity |-> IF v5 THEN readUint8(file, rd + 2) ELSE 100,
                      Panning |-> IF v5 THEN readUint8(file, rd + 3) ELSE 100,
                      Pitch |-> IF v5 THEN readInt16(file, rd + 4) ELSE 0]
            IN
            /\ rd' = rd + size
            /\ data' = IF key = 0 THEN data
                       ELSE [data EXCEPT !.Notess = Append(@, n)]
            /\ dpc' = "jumpLayers"
            /\ UNCHANGED <<src, file, nbsTick, nbsLayer, ret>>
    /\ UNCHANGED pvars

\* Mutant of ReadNote: `if key == 0 { continue }` sits before the version 4
\* reads.
ReadNote_earlyContinue ==
    /\ dpc = "note"
    /\ IF ~HasBytes(file, rd, 2)
       THEN Fail
       ELSE IF readUint8(file, rd + 1) = 0
       THEN /\ rd' = rd + 2
            /\ dpc' = "jumpLayers"
            /\ UNCHANGED <<src, file, data, nbsTick, nbsLayer, ret>>
            /\ UNCHANGED pvars
       ELSE IF ~HasBytes(file, rd, NoteSize(data.Version))
       THEN Fail
       ELSE LET v4 == data.Version >= 4
                n == [Tick |-> nbsTick,
                      Layer |-> nbsLayer,
                      Instrument |-> readUint8(file, rd),
                      Key |-> readUint8(file, rd + 1),
                      Velocity |-> IF v4 THEN readUint8(file, rd + 2) ELSE 100,
                      Panning |-> IF v4 THEN readUint8(file, rd + 3) ELSE 100,
                      Pitch |-> IF v4 THEN readInt16(file, rd + 4) ELSE 0]
            IN
            /\ rd' = rd + NoteSize(data.Version)
            /\ data' = [data EXCEPT !.Notess = Append(@, n)]
            /\ dpc' = "jumpLayers"
            /\ UNCHANGED <<src, file, nbsTick, nbsLayer, ret>>
            /\ UNCHANGED pvars

\* The rest of the inner loop: instrument, key, the version 4 fields, and the
\* append unless key = 0.
ReadNote ==
    /\ dpc = "note"
    /\ IF ~HasBytes(file, rd, NoteSize(data.Version))
       THEN Fail
       ELSE LET v4 == data.Version >= 4
                key == readUint8(file, rd + 1)
                n == [Tick |-> nbsTick,
                      Layer |-> nbsLayer,
                      Instrument |-> readUint8(file, rd),
                      Key |-> key,
                      Velocity |-> IF v4 THEN readUint8(file, rd + 2) ELSE 100,
                      Panning |-> IF v4 THEN readUint8(file, rd + 3) ELSE 100,
                      Pitch |-> IF v4 THEN readInt16(file, rd + 4) ELSE 0]
            IN
            /\ rd' = rd + NoteSize(data.Version)
            /\ data' = IF key = 0 THEN data
                       ELSE [data EXCEPT !.Notess = Append(@, n)]
            /\ dpc' = "jumpLayers"
            /\ UNCHANGED <<src, file, nbsTick, nbsLayer, ret>>
    /\ UNCHANGED pvars

\* The largest Tick of a non-empty note list.
MaxTickOf(notes) ==
    CHOOSE m \in { notes[i].Tick : i \in 1..Len(notes) } :
        \A i \in 1..Len(notes) : notes[i].Tick <= m

\* Mutant of Finish: a declared length below the largest event tick is
\* replaced by that tick.
Finish_raisesLength ==
    /\ dpc = "finish"
    /\ data' = [data EXCEPT
                  !.Length = IF Len(data.Notess) > 0
                                /\ (data.Length = 0 \/ data.Length < MaxTickOf(data.Notess))
                             THEN MaxTickOf(data.Notess) % 65536
                             ELSE @,
                  !.HasDuration = data.TempoRaw > 0]
    /\ dpc' = "done"
    /\ ret' = "data"
    /\ UNCHANGED <<src, file, rd, nbsTick, nbsLayer>>
    /\ UNCHANGED pvars

\* After the loops: the length of a file that declares none, the duration,
\* `return &data, nil`.
Finish ==
    /\ dpc = "finish"
    /\ data' = [data EXCEPT
                  !.Length = IF data.Length = 0 /\ Len(data.Notess) > 0
                             THEN MaxTickOf(data.Notess) % 65536
                             ELSE @,
                  !.HasDuration = data.TempoRaw > 0]
    /\ dpc' = "done"
    /\ ret' = "data"
    /\ UNCHANGED <<src, file, rd, nbsTick, nbsLayer>>
    /\ UNCHANGED pvars

DecodeNext ==
    \/ ParseHeader
    \/ ReadJumpTicks
    \/ ReadJumpLayers
    \/ ReadNote
    \/ Finish

\* ParseNBS on a complete file.
DecodeSpec == DecodeInit /\ [][DecodeNext]_vars

\* ParseNBS on a file that may end anywhere.
CutSpec == CutInit /\ [][DecodeNext]_vars

\* ---------------------------------------------------------------- loading and playing
\* nbsConverter: the Song of a decoded file, as far as the scheduler reads it
\* (the tempo of the file is in hundredths of a tick per second).
nbsConverter(nd) ==
    [Tempo |-> nd.TempoRaw \div 100,
     Length |-> nd.Length,
     Notes |-> [i \in 1..Len(nd.Notess) |-> nd.Notess[i].Tick]]

\* The streams whose ticks a session can run through: no jump_ticks of 65535.
ShortStreams ==
    { r \in Streams : \A i \in 1..Len(r) : r[i].kind = "tick" => r[i].jump < 65535 }

\* The file the command names: a complete .nbs file, or a .json file (the
\* decoder is then not used).
LoadInit ==
    \/ \E h \in [length : DeclaredLengths, version : Versions, records : ShortStreams] :
           Opened(h, FileBytes(h))
    \/ Init

\* PlayNoteBlockCmd.Run for listener p1: flexSongLoader gives the Song of the
\* .nbs file once ParseNBS has returned it, or the Song a .json file holds;
\* then `go playSong`.
Run ==
    /\ spawned = <<>>
    /\ \/ dpc = "done" /\ PlayNoteblock("p1", nbsConverter(data))
       \/ dpc = "idle" /\ \E s \in AllSongs : PlayNoteblock("p1", s)

\* One play command: the file is loaded, then played; while the session is
\* there a stop command may come, one for each registration.
LoadNext ==
    \/ DecodeNext
    \/ Run
    \/ spawned # <<>> /\ lastStop["p1"] = "none" /\ StopLock("p1")
    \/ stopSong("p1")
    \/ \E t \in Tasks : TaskStep(t)

LoadSpec == LoadInit /\ [][LoadNext]_vars

\* ---------------------------------------------------------------- reading the log
\* Positions of log[t] holding an entry of kind op.
At(t, op) == { i \in 1..Len(log[t]) : log[t][i].op = op }

\* The tick of the note an emit entry delivered.
TickOf(t, i) == song[t].Notes[log[t][i].arg]

\* A signal went into t's channel.
Signalled(t) == At(t, "signal") # {}

\* t is in its tick loop and no signal is waiting for it.
Active(t) == pc[t] \in {"loop", "sleep", "emit"} /\ stopChan[t] = 0

\* a was spawned before b, for the same listener.
SpawnedBefore(a, b) ==
    /\ eh[a] = eh[b]
    /\ \E i, j \in 1..Len(spawned) : i < j /\ spawned[i] = a /\ spawned[j] = b

\* ---------------------------------------------------------------- claims

\* C1 (as claimed): once play(L, B) has been invoked after play(L, A), task A
\* emits no further event and B, whose events alone are delivered, is never
\* cancelled by A.
C1_Preemption ==
    [][\A a, b \in Tasks : SpawnedBefore(a, b) =>
          /\ ~Emit(a)
          /\ ~(Register(a) /\ stopPlayer[eh[a]] = b)]_vars

\* C2 (as claimed): stop(L) with an active session of L returns true and puts
\* the signal into the channel of that session.
C2_StopActive ==
    [][\A l \in Listeners : \A t \in Tasks :
          (stopSong(l) /\ eh[t] = l /\ Active(t)) =>
              (lastStop'[l] = "true" /\ stopChan'[t] = 1)]_vars

\* L has no session: never played, or every session of L is over.
NoSession(l) == \A t \in Tasks : eh[t] = l => pc[t] \in {"idle", "done"}

C4_NoNoticeOnCancel ==
    \A t \in Tasks : cancelled[t] => At(t, "notice") = {}

\* The notes of t's song the loop reaches: those with a tick in 0..Length.
InRange(t) == { i \in 1..Len(song[t].Notes) : song[t].Notes[i] \in 0..song[t].Length }

\* t emitted every note in range exactly once and nothing else, and then
\* delivered the completion notice, once.
Complete(t) ==
    /\ \A i \in InRange(t) :
          Cardinality({ k \in At(t, "emit") : log[t][k].arg = i }) = 1
    /\ \A k \in At(t, "emit") : log[t][k].arg \in InRange(t)
    /\ Cardinality(At(t, "notice")) = 1
    /\ \A k \in At(t, "emit") : \A n \in At(t, "notice") : k < n

\* C5: a session that is never sent a signal runs to its end: it emits every
\* event with a tick in 0..Length exactly once, then delivers the completion
\* notice once, and its last step leaves the registry with no entry for its
\* listener.
C5_RunsToCompletion ==
    /\ \A t \in Tasks : [](pc[t] = "start" => <>(pc[t] = "done"))
    /\ [](\A t \in Tasks : (pc[t] = "done" /\ ~Signalled(t)) => Complete(t))
    /\ [][\A t \in Tasks : Unregister(t) =>
             (At(t, "notice") # {} /\ stopPlayer'[eh[t]] = NoEntry)]_vars

\* C5's case: a session that was never signalled has played both notes of its
\* song and is done.
C5_Witness ==
    \E t \in Tasks :
        /\ pc[t] = "done" /\ ~Signalled(t)
        /\ song[t] = Song(2, <<0, 1>>)
        /\ Cardinality(At(t, "emit")) = 2

\* C6 (as claimed): at most one session per listener is active.
C6_OneActive ==
    \A l \in Listeners : Cardinality({ t \in Tasks : eh[t] = l /\ Active(t) }) <= 1

\* The position of the signal in log[t] (a channel takes one signal at most).
SignalAt(t) == CHOOSE i \in At(t, "signal") : TRUE

SleepsAfterSignal(t) == { i \in At(t, "sleep") : i > SignalAt(t) }
EmitsAfterSignal(t) == { i \in At(t, "emit") : i > SignalAt(t) }

\* C7: once a signal is in its channel, a session sleeps at most once more and
\* emits the events of at most one further tick (after that sleep, if any);
\* the next poll of the channel ends it.
C7_BoundedLatency ==
    /\ [](\A t \in Tasks : Signalled(t) =>
            /\ Cardinality(At(t, "signal")) = 1
            /\ Cardinality(SleepsAfterSignal(t)) <= 1
            /\ \A i, j \in EmitsAfterSignal(t) : TickOf(t, i) = TickOf(t, j)
            /\ \A i \in SleepsAfterSignal(t) : \A j \in EmitsAfterSignal(t) : i < j)
    /\ [][\A t \in Tasks : (Poll(t) /\ stopChan[t] > 0) =>
             (pc'[t] = "notice" /\ cancelled'[t])]_vars

\* C7's case: a session was signalled before a sleep, slept, emitted the
\* events of that tick and was then ended by the poll.
C7_Witness ==
    \E t \in Tasks :
        /\ cancelled[t]
        /\ SleepsAfterSignal(t) # {}
        /\ EmitsAfterSignal(t) # {}

\* Emit positions i < j of log[t] with no emit between them.
NextEmit(t, i, j) ==
    /\ i \in At(t, "emit") /\ j \in At(t, "emit") /\ i < j
    /\ \A k \in At(t, "emit") : ~(i < k /\ k < j)

\* The sleeps of log[t] between positions i and j.
SleepsBetween(t, i, j) == { k \in At(t, "sleep") : i < k /\ k < j }

\* C8: within one session the ticks of the emitted events never decrease and
\* grow across every sleep; the events of one tick come out in the order of
\* the note list, with no sleep between them.
C8_TickOrder ==
    \A t \in Tasks : \A i, j \in At(t, "emit") : i < j =>
        /\ TickOf(t, i) <= TickOf(t, j)
        /\ SleepsBetween(t, i, j) # {} => TickOf(t, i) < TickOf(t, j)
        /\ TickOf(t, i) = TickOf(t, j) =>
              (log[t][i].arg < log[t][j].arg /\ SleepsBetween(t, i, j) = {})

\* C8's case: a note list that is not sorted by tick, played to the end.
C8_Witness ==
    \E t \in Tasks :
        /\ pc[t] = "done"
        /\ song[t] = Song(2, <<2, 0, 2>>)
        /\ Cardinality(At(t, "emit")) = 3

\* C9 (as claimed): between the events of tick a and those of the next tick
\* with events, b, the session sleeps exactly once, for b - a tick durations.
C9_OneAccumulatedWait ==
    \A t \in Tasks : \A i, j \in 1..Len(log[t]) :
        (NextEmit(t, i, j) /\ TickOf(t, i) < TickOf(t, j)) =>
            /\ Cardinality(SleepsBetween(t, i, j)) = 1
            /\ \A k \in SleepsBetween(t, i, j) :
                  log[t][k].arg = TickOf(t, j) - TickOf(t, i)

\* C9 (amended): between the events of tick a and those of the next tick with
\* events, b, the session sleeps exactly b - a times, one tick duration each;
\* the events of tick 0 are emitted before any sleep.
C9_OneWaitPerTick ==
    \A t \in Tasks :
        /\ \A k \in At(t, "sleep") : log[t][k].arg = 1
        /\ \A i \in At(t, "emit") :
              TickOf(t, i) = 0 => \A k \in At(t, "sleep") : i < k
        /\ \A i, j \in 1..Len(log[t]) :
              (NextEmit(t, i, j) /\ TickOf(t, i) < TickOf(t, j)) =>
                  Cardinality(SleepsBetween(t, i, j)) = TickOf(t, j) - TickOf(t, i)

\* C9's case: events at ticks 0, 0, 3 played to the end: two emissions, three
\* sleeps, the third emission.
C9_Witness ==
    \E t \in Tasks :
        /\ pc[t] = "done"
        /\ song[t] = Song(3, <<0, 0, 3>>)
        /\ Cardinality(At(t, "emit")) = 3
        /\ Cardinality(At(t, "sleep")) = 3

\* The notes a stream of records stands for: ticks and layers count up from
\* -1 by the jumps, every entry moves the layer, entries with key 0 are left
\* out.
RECURSIVE NotesOf(_, _, _, _, _)
NotesOf(recs, version, i, tk, ly) ==
    IF i > Len(recs) THEN <<>>
    ELSE IF recs[i].kind = "tick"
    THEN NotesOf(recs, version, i + 1, tk + recs[i].jump, -1)
    ELSE (IF recs[i].key = 0 THEN <<>>
          ELSE << [Tick |-> tk,
                   Layer |-> ly + recs[i].jump,
                   Instrument |-> Fields.instrument,
                   Key |-> recs[i].key,
                   Velocity |-> IF version >= 4 THEN Fields.velocity ELSE 100,
                   Panning |-> IF version >= 4 THEN Fields.panning ELSE 100,
                   Pitch |-> IF version >= 4 THEN Fields.pitch ELSE 0] >>)
         \o NotesOf(recs, version, i + 1, tk, ly + recs[i].jump)

\* C10: the decoded note list never holds an event with key 0, and a decode
\* that succeeds yields exactly the notes the stream stands for: a key-0 entry
\* takes its whole record and moves the layer, so the entries after it keep
\* their layer and fields.
C10_NoPlaceholder ==
    /\ \A i \in 1..Len(data.Notess) : data.Notess[i].Key # 0
    /\ dpc = "done" => data.Notess = NotesOf(src.records, src.version, 1, -1, -1)

\* C10's case: a version 4 file whose only tick holds a key-0 entry and then a
\* real one, decoded to the end.
C10_Witness ==
    /\ dpc = "done"
    /\ src.version = 4
    /\ src.records = <<TickRecord(1), NoteRecord(1, 0), NoteRecord(2, 45)>>
    /\ Len(data.Notess) = 1
    /\ data.Notess[1].Layer = 2

\* The sum of the jump_ticks of the tick headers among the first i records.
RECURSIVE TickSum(_, _)
TickSum(recs, i) ==
    IF i = 0 THEN 0
    ELSE TickSum(recs, i - 1) + (IF recs[i].kind = "tick" THEN recs[i].jump ELSE 0)

\* The sum of the jump_layers of the entries among the first i records that
\* come after the last tick header.
RECURSIVE LayerSum(_, _)
LayerSum(recs, i) ==
    IF i = 0 \/ recs[i].kind = "tick" THEN 0
    ELSE LayerSum(recs, i - 1) + recs[i].jump

\* The records that stand for an event: the entries with a key other than 0.
EventRecords(recs) == { i \in 1..Len(recs) : recs[i].kind = "note" /\ recs[i].key # 0 }

\* The record of the k-th event.
RecordOf(recs, k) ==
    CHOOSE i \in EventRecords(recs) :
        Cardinality({ j \in EventRecords(recs) : j <= i }) = k

\* C11: the k-th decoded event has the tick (sum of the jump_ticks read so
\* far) - 1 and the layer (sum of the jump_layers read in its tick) - 1; the
\* decoder leaves the stream on a jump_ticks of 0, having read every record
\* before it and nothing after it.
C11_DoubleDelta ==
    /\ Len(data.Notess) <= Cardinality(EventRecords(src.records))
    /\ \A k \in 1..Len(data.Notess) :
          LET i == RecordOf(src.records, k) IN
              /\ data.Notess[k].Tick = TickSum(src.records, i) - 1
              /\ data.Notess[k].Layer = LayerSum(src.records, i) - 1
    /\ dpc \in {"finish", "done"} =>
          /\ Len(data.Notess) = Cardinality(EventRecords(src.records))
          /\ rd = Len(FileBytes(src))
          /\ readUint16(file, rd - 2) = 0

\* C11's case: jump_ticks 3, 2, 0 with jump_layers 1, 0 in the first tick,
\* followed by more bytes, decoded to the end: one event, tick 2, layer 0.
C11_Witness ==
    /\ dpc = "done"
    /\ src.records = <<TickRecord(3), NoteRecord(1, 45), TickRecord(2)>>
    /\ Len(file) > rd
    /\ Len(data.Notess) = 1
    /\ data.Notess[1].Tick = 2 /\ data.Notess[1].Layer = 0

\* C12: in a file of a version below 4 an entry takes two bytes, instrument
\* and key, and its event gets velocity 100, panning 100 and pitch 0; from
\* version 4 on an entry takes six bytes and its event gets the velocity, the
\* panning and the signed 16-bit pitch that follow the key, in that order.
C12_VersionGating ==
    /\ [](\A k \in 1..Len(data.Notess) :
            LET n == data.Notess[k] IN
                /\ n.Instrument = Fields.instrument
                /\ n.Key = src.records[RecordOf(src.records, k)].key
                /\ IF src.version < 4
                   THEN n.Velocity = 100 /\ n.Panning = 100 /\ n.Pitch = 0
                   ELSE /\ n.Velocity = Fields.velocity
                        /\ n.Panning = Fields.panning
                        /\ n.Pitch = Fields.pitch)
    /\ [][(ReadNote /\ dpc' # "error") =>
             rd' - rd = (IF src.version < 4 THEN 2 ELSE 6)]_vars

\* C12's case: a version 4 file with two events in one tick, decoded to the
\* end: both carry the velocity, panning and (negative) pitch of the file.
C12_Witness ==
    /\ dpc = "done"
    /\ src.version = 4
    /\ Len(data.Notess) = 2
    /\ data.Notess[2].Velocity = 80
    /\ data.Notess[2].Panning = 50
    /\ data.Notess[2].Pitch = -2

\* The largest tick of the decoded events, as an unbounded integer.
MaxEventTick ==
    CHOOSE m \in { data.Notess[i].Tick : i \in 1..Len(data.Notess) } :
        \A i \in 1..Len(data.Notess) : data.Notess[i].Tick <= m

\* C13 (as claimed): a decoded file that declares length 0 and holds at least
\* one event gets the largest event tick as its length; a declared length
\* other than 0 is kept.
C13_LengthInference ==
    dpc = "done" =>
        /\ (src.length = 0 /\ Len(data.Notess) > 0) => data.Length = MaxEventTick
        /\ src.length # 0 => data.Length = src.length

\* C14: a file that ends before the jump_ticks = 0 that closes its stream is
\* never decoded to a Song: the decoder is reading, or it has failed and
\* returned nil with the error, whatever it had decoded by then; it fails on
\* no other file, and a failing read is the last step of a decoding.
C14_TruncatedInput ==
    /\ [](Len(file) < Len(FileBytes(src)) =>
            /\ dpc \in {"header", "jumpTicks", "jumpLayers", "note", "error"}
            /\ ret # "data")
    /\ [](dpc = "error" <=> ret = "nil")
    /\ [](dpc = "error" => Len(file) < Len(FileBytes(src)))
    /\ [][dpc # "error" /\ ret = "pending"]_vars

\* C14's case: a file cut inside the entry of its second event: the decoder
\* had one event when the read failed, and returned nil.
C14_Witness ==
    /\ dpc = "error" /\ ret = "nil"
    /\ Len(data.Notess) = 1
    /\ Cardinality(EventRecords(src.records)) = 2
    /\ HasBytes(file, rd, 1)

\* t has registered and its goroutine has not returned.
Registered(t) == pc[t] \in {"loop", "sleep", "emit", "notice", "unregister", "delete"}

\* C15 (as claimed): a listener with a task in its tick loop that was sent no
\* signal has a registry entry, and an entry is the channel of a registered
\* task of that listener, put there by the latest registration; a task that
\* ends deletes its own entry or none.
C15_RegistryConsistency ==
    /\ [](\A t \in Tasks : (Active(t) /\ ~Signalled(t)) => stopPlayer[eh[t]] # NoEntry)
    /\ [](\A l \in Listeners : stopPlayer[l] # NoEntry =>
            (eh[stopPlayer[l]] = l /\ Registered(stopPlayer[l])))
    /\ [][\A l \in Listeners :
             (stopPlayer'[l] # stopPlayer[l] /\ stopPlayer'[l] # NoEntry) =>
                 Register(stopPlayer'[l])]_vars
    /\ [][\A t \in Tasks :
             Unregister(t) => stopPlayer[eh[t]] \in {t, NoEntry}]_vars

\* The time log[t] shows t asleep before position i, in nanoseconds: the sum
\* of the arguments of its calls of time.Sleep.
RECURSIVE SleptBefore(_, _)
SleptBefore(t, i) ==
    IF i <= 1 THEN 0
    ELSE SleptBefore(t, i - 1)
         + (IF log[t][i - 1].op = "sleep"
            THEN log[t][i - 1].arg * tickDuration(song[t]) ELSE 0)

\* One tick of a song in nanoseconds, as claimed: 1/tempo seconds for a tempo
\* above 0, else 1/20 second.
TickNanos(s) == IF s.Tempo > 0 THEN 1000000000 \div s.Tempo ELSE 50000000

\* C16: when a session emits an event of tick k it has slept k tick durations
\* in all (none before tick 0), and a session that leaves the loop without
\* being cancelled has slept Length tick durations; a tick duration is
\* 1/tempo seconds for a tempo above 0 and 1/20 second otherwise.
C16_TimingTotal ==
    \A t \in Tasks :
        /\ \A i \in At(t, "emit") : SleptBefore(t, i) = TickOf(t, i) * TickNanos(song[t])
        /\ (pc[t] \in {"notice", "unregister", "delete", "done"}
              /\ ~cancelled[t] /\ song[t].Length >= 0) =>
                SleptBefore(t, Len(log[t]) + 1) = song[t].Length * TickNanos(song[t])

\* C16's case: a song of tempo 10 and length 3 with events at ticks 0 and 3,
\* played to the end: 0.3 seconds of sleep before the last event.
C16_Witness ==
    \E t \in Tasks :
        /\ pc[t] = "done" /\ ~cancelled[t]
        /\ song[t] = [Song(3, <<0, 3>>) EXCEPT !.Tempo = 10]
        /\ Cardinality(At(t, "emit")) = 2
        /\ SleptBefore(t, Len(log[t])) = 300000000

\* C17: a stop channel never holds more than one signal; the sends of stopSong
\* and of playSong's locked section finish within their step, and each finds
\* its channel empty; the mutex is always released again, a task that waits
\* for it gets it, and a task at the poll goes on whether or not a signal is
\* there.
C17_NeverBlocks ==
    /\ [](\A t \in Tasks : stopChan[t] \in {0, 1})
    /\ [][\A l \in Listeners : (stopSong(l) /\ stopPlayer[l] # NoEntry) =>
             (stopChan[stopPlayer[l]] = 0 /\ stopChan'[stopPlayer[l]] = 1)]_vars
    /\ [][\A t \in Tasks : (Register(t) /\ stopPlayer[eh[t]] # NoEntry) =>
             (stopChan[stopPlayer[eh[t]]] = 0 /\ stopChan'[stopPlayer[eh[t]]] = 1)]_vars
    /\ (stopPlayerMtx # Unlocked) ~> (stopPlayerMtx = Unlocked)
    /\ \A t \in Tasks :
          /\ (pc[t] \in {"start", "unregister"}) ~> (pc[t] \in {"register", "delete"})
          /\ (pc[t] = "loop" /\ stopChan[t] = 0) ~> (pc[t] # "loop" \/ stopChan[t] = 1)

\* C17's case: a stop has returned true and released the mutex while the
\* task it signalled is still asleep, the signal waiting in the channel.
C17_Witness ==
    \E t \in Tasks :
        /\ pc[t] = "sleep" /\ stopChan[t] = 1
        /\ lastStop[eh[t]] = "true"
        /\ stopPlayerMtx = Unlocked

\* C18: a task holds stopPlayerMtx exactly between its Lock and the end of the
\* locked section that follows (the registration, or the deferred delete), so
\* never while it sleeps, emits or delivers the notice; the next step of a
\* holder is the rest of its locked section, which releases the mutex, and a
\* call of stopSong holds it from its Lock to its return only.
C18_LockScope ==
    /\ [](\A t \in Tasks :
            stopPlayerMtx = ByTask(t) <=> pc[t] \in {"register", "delete"})
    /\ [](\A t \in Tasks :
            pc[t] \in {"sleep", "emit", "notice"} => stopPlayerMtx # ByTask(t))
    /\ [][\A t \in Tasks : (stopPlayerMtx = ByTask(t) /\ pc'[t] # pc[t]) =>
             ((Register(t) \/ Unregister(t)) /\ stopPlayerMtx' = Unlocked)]_vars
    /\ [][\A l \in Listeners : stopPlayerMtx = ByStop(l) =>
             (stopPlayerMtx' = ByStop(l)
                \/ (stopSong(l) /\ stopPlayerMtx' = Unlocked))]_vars

\* C18's case: a task holds the mutex for its deferred delete while another
\* task sleeps between two ticks.
C18_Witness ==
    \E t, u \in Tasks :
        /\ pc[t] = "delete" /\ stopPlayerMtx = ByTask(t)
        /\ pc[u] = "sleep"

\* The step is an operation of listener l: a play or a stop of l, or a step
\* of a task that plays to l.
StepOf(l) ==
    \/ \E s \in Playlist : PlayNoteblock(l, s)
    \/ StopLock(l)
    \/ stopSong(l)
    \/ \E t \in Tasks : pc[t] # "idle" /\ eh[t] = l /\ TaskStep(t)

\* The step leaves alone the registry entry of l and the channel, the
\* position and the log of every task that plays to l.
Untouched(l) ==
    /\ stopPlayer'[l] = stopPlayer[l]
    /\ lastStop'[l] = lastStop[l]
    /\ \A u \in Tasks : (pc[u] # "idle" /\ eh[u] = l) =>
          /\ eh'[u] = eh[u] /\ song'[u] = song[u] /\ pc'[u] = pc[u]
          /\ tick'[u] = tick[u] /\ currentTick'[u] = currentTick[u]
          /\ noteIdx'[u] = noteIdx[u] /\ stopChan'[u] = stopChan[u]
          /\ cancelled'[u] = cancelled[u] /\ log'[u] = log[u]

\* C19: an operation of listener l changes nothing of another listener: not
\* its registry entry, not the channel, the progress or the log of its tasks.
\* The entry of a listener is a channel of one of its own tasks; a signal
\* reaches a task only from a stop or a registration of its own listener, and
\* an entry goes away only by a stop or an ending task of its own listener.
C19_ListenerIsolation ==
    /\ [][\A l \in Listeners : StepOf(l) =>
             \A k \in Listeners \ {l} : Untouched(k)]_vars
    /\ [](\A l \in Listeners : stopPlayer[l] # NoEntry => eh[stopPlayer[l]] = l)
    /\ [][\A u \in Tasks : (stopChan[u] = 0 /\ stopChan'[u] = 1) =>
             (stopSong(eh[u]) \/ \E t \in Tasks : eh[t] = eh[u] /\ Register(t))]_vars
    /\ [][\A l \in Listeners : (stopPlayer[l] # NoEntry /\ stopPlayer'[l] = NoEntry) =>
             (stopSong(l) \/ \E t \in Tasks : eh[t] = l /\ Unregister(t))]_vars

\* C19's case: the session of p1 was stopped and has ended, cleanup included,
\* while the session of p2 plays on, registered and with no signal.
C19_Witness ==
    \E t, u \in Tasks :
        /\ eh[t] = "p1" /\ cancelled[t] /\ pc[t] = "done"
        /\ lastStop["p1"] = "true"
        /\ eh[u] = "p2" /\ Active(u) /\ stopPlayer["p2"] = u
        /\ At(u, "emit") # {}

\* The calls of playSoundSelf in log[t], delivered or not.
Tried(t) == { i \in 1..Len(log[t]) : log[t][i].op \in {"emit", "drop"} /\ log[t][i].arg > 0 }

\* C20: a session whose listener leaves the world goes on as before: it ends,
\* having called playSoundSelf exactly once for every event with a tick in
\* 0..Length, delivered or not, in the same order and after the same sleeps as
\* otherwise, and its deferred delete leaves no entry for its listener.
C20_DeliveryNotFatal ==
    /\ \A t \in Tasks : [](pc[t] = "start" => <>(pc[t] = "done"))
    /\ [](\A t \in Tasks : pc[t] = "done" =>
            /\ \A n \in InRange(t) :
                  Cardinality({ i \in Tried(t) : log[t][i].arg = n }) = 1
            /\ \A i \in Tried(t) : log[t][i].arg \in InRange(t)
            /\ Cardinality(At(t, "sleep")) = (IF song[t].Length > 0 THEN song[t].Length ELSE 0)
            /\ stopPlayer[eh[t]] = NoEntry)
    /\ [](\A t \in Tasks : \A i, j \in Tried(t) :
            /\ SleptBefore(t, i) = TickOf(t, i) * TickNanos(song[t])
            /\ (i < j /\ TickOf(t, i) = TickOf(t, j)) => log[t][i].arg < log[t][j].arg)

\* C20's case: the listener left after the first of three events; the session
\* slept its three ticks, tried the other two events and the notice in vain,
\* and ended.
C20_Witness ==
    \E t \in Tasks :
        /\ pc[t] = "done" /\ ~inWorld[eh[t]]
        /\ song[t] = Song(3, <<0, 0, 3>>)
        /\ Cardinality(At(t, "emit")) = 1
        /\ Cardinality(At(t, "drop")) = 3
        /\ Cardinality(At(t, "sleep")) = 3

\* t has left the tick loop without having been cancelled.
RanOut(t) == pc[t] \in {"notice", "unregister", "delete", "done"} /\ ~cancelled[t]

\* C21: no session, cancelled or not, emits an event whose tick is below 0 or
\* above its song's Length; a session that is not cancelled still runs the
\* ticks 0..Length and no other (one sleep before each tick above 0, every
\* event in range emitted once) and then delivers the completion notice; and
\* a file that declares a length other than 0 is played with that length and
\* all its events, whatever their ticks.
C21_OutOfRange ==
    /\ \A t \in Tasks :
          /\ \A k \in At(t, "emit") : TickOf(t, k) \in 0..song[t].Length
          /\ RanOut(t) =>
                /\ tick[t] = (IF song[t].Length >= 0 THEN song[t].Length + 1 ELSE 0)
                /\ Cardinality(At(t, "sleep"))
                      = (IF song[t].Length >= 0 THEN song[t].Length ELSE 0)
                /\ \A k \in At(t, "sleep") : log[t][k].arg = 1
                /\ \A i \in InRange(t) :
                      Cardinality({ k \in At(t, "emit") : log[t][k].arg = i }) = 1
          /\ (RanOut(t) /\ pc[t] # "notice") => Cardinality(At(t, "notice")) = 1
    /\ (dpc = "done" /\ src.length # 0) =>
          /\ data.Length = src.length
          /\ \A t \in Tasks : pc[t] # "idle" =>
                /\ song[t].Length = src.length
                /\ Len(song[t].Notes) = Cardinality(EventRecords(src.records))

\* C21's case: a file that declares length 7 and holds one event, at tick 8,
\* played to the end: seven sleeps, no event emitted, the notice delivered.
C21_Witness ==
    \E t \in Tasks :
        /\ pc[t] = "done" /\ ~cancelled[t]
        /\ dpc = "done" /\ src.length = 7
        /\ src.records = <<TickRecord(3), TickRecord(3), TickRecord(3), NoteRecord(1, 45)>>
        /\ song[t].Length = 7 /\ song[t].Notes = <<8>>
        /\ At(t, "emit") = {}
        /\ Cardinality(At(t, "sleep")) = 7
        /\ Cardinality(At(t, "notice")) = 1

====
